---------------------------- MODULE Spec2Model ----------------------------
(***************************************************************************)
(* The customer-table cleaning pipeline of data_cleaning.py as a state     *)
(* machine.  A table (pandas DataFrame) is a sequence of columns; a column *)
(* is a record [name, dtype, cells].  Text (a header, a text cell) is a    *)
(* sequence of one-character strings, so that case conversion, stripping   *)
(* and pattern matching are computed character by character.  A cell is    *)
(* one of                                                                  *)
(*     [t |-> "null"]                    NaN / None / <NA>                 *)
(*     [t |-> "str",  s |-> text]        a Python str                      *)
(*     [t |-> "num",  n |-> i, d |-> j]  the float i/j (lowest terms)      *)
(*     [t |-> "int",  v |-> i]           an Int64 value                    *)
(*     [t |-> "bool", b |-> BOOLEAN]     a bool                            *)
(* The pipeline runs its seven stages in order; a stage that raises ends   *)
(* the run.  The caller's DataFrame object is tracked beside the table the *)
(* pipeline works on.                                                      *)
(***************************************************************************)
EXTENDS Integers, Sequences, FiniteSets, TLC

VARIABLES
    input,    \* the table the caller handed in, as it was at the call
    caller,   \* the caller's DataFrame object, as it is now
    df,       \* the object the local name df of main_cleaning_pipeline is bound to
    alias,    \* TRUE while df and the caller's object are the same object
    pre,      \* df as it was when the most recently started stage started
    pc,       \* the stage to run next (1..7), 8 before return, "done", "failed"
    started,  \* the stages started so far, in order
    err,      \* the exception that ended the run, "" if none
    ret       \* the returned table: <<table>> once returned, << >> before

vars == <<input, caller, df, alias, pre, pc, started, err, ret>>

----------------------------------------------------------------------------
(* Characters and text *)

Uppers == <<"A","B","C","D","E","F","G","H","I","J","K","L","M","N","O","P","Q","R","S","T","U","V","W","X","Y","Z">>
Lowers == <<"a","b","c","d","e","f","g","h","i","j","k","l","m","n","o","p","q","r","s","t","u","v","w","x","y","z">>
Digits == <<"0","1","2","3","4","5","6","7","8","9">>

Range(s) == {s[i] : i \in DOMAIN s}

UpperSet == Range(Uppers)
LowerSet == Range(Lowers)
DigitSet == Range(Digits)

IsUpperCh(c) == c \in UpperSet
IsLowerCh(c) == c \in LowerSet
IsDigitCh(c) == c \in DigitSet

IndexIn(s, c) == CHOOSE i \in DOMAIN s : s[i] = c

\* str.lower / str.upper on one letter, as tables
LowerOf == [c \in UpperSet |-> Lowers[IndexIn(Uppers, c)]]
UpperOf == [c \in LowerSet |-> Uppers[IndexIn(Lowers, c)]]

\* str.lower / str.upper on one character
LowerCh(c) == IF IsUpperCh(c) THEN LowerOf[c] ELSE c
UpperCh(c) == IF IsLowerCh(c) THEN UpperOf[c] ELSE c

StrLower(s) == [i \in DOMAIN s |-> LowerCh(s[i])]
StrUpper(s) == [i \in DOMAIN s |-> UpperCh(s[i])]

\* str.replace(' ', '_')
StrReplaceSpace(s) == [i \in DOMAIN s |-> IF s[i] = " " THEN "_" ELSE s[i]]

\* str.rstrip('%'): every trailing '%' is removed
RECURSIVE StrRStripPct(_)
StrRStripPct(s) ==
    IF s # << >> /\ s[Len(s)] = "%" THEN StrRStripPct(SubSeq(s, 1, Len(s) - 1)) ELSE s

\* \w of the re module, on the characters the model draws
IsWordCh(c) == IsUpperCh(c) \/ IsLowerCh(c) \/ IsDigitCh(c) \/ c = "_"

\* re.search(r'^[Ff]', s) and its like: the first character is one of set
StartsWithOneOf(s, set) == s # << >> /\ s[1] \in set

\* re.search(r'\bSports\b', s): the word occurs with a word boundary on each side
Sports == <<"S","p","o","r","t","s">>
ContainsWord(s, w) ==
    \E i \in 1..(Len(s) - Len(w) + 1) :
        /\ SubSeq(s, i, i + Len(w) - 1) = w
        /\ (i = 1 \/ ~IsWordCh(s[i - 1]))
        /\ (i + Len(w) - 1 = Len(s) \/ ~IsWordCh(s[i + Len(w)]))

----------------------------------------------------------------------------
(* Cells *)

Null == [t |-> "null"]
Str(s) == [t |-> "str", s |-> s]
IntCell(v) == [t |-> "int", v |-> v]
BoolCell(b) == [t |-> "bool", b |-> b]

IsNull(c) == c.t = "null"
IsStr(c) == c.t = "str"
IsNum(c) == c.t = "num"
IsInt(c) == c.t = "int"

RECURSIVE GCD(_, _)
GCD(a, b) == IF b = 0 THEN a ELSE GCD(b, a % b)

Abs(a) == IF a < 0 THEN -a ELSE a

\* the float n/d, d > 0, in lowest terms
Num(n, d) ==
    LET g == GCD(Abs(n), d)
    IN  [t |-> "num", n |-> n \div g, d |-> d \div g]

NumLess(a, b) == a.n * b.d < b.n * a.d
NumMean(a, b) == Num(a.n * b.d + b.n * a.d, 2 * a.d * b.d)

----------------------------------------------------------------------------
(* Tables *)

Col(name, dtype, cells) == [name |-> name, dtype |-> dtype, cells |-> cells]

Names(t) == [i \in DOMAIN t |-> t[i].name]

\* the positions of the columns labelled name
Locs(t, name) == {i \in DOMAIN t : t[i].name = name}

Loc(t, name) == CHOOSE i \in DOMAIN t : t[i].name = name

NRowsOf(t) == IF t = << >> THEN 0 ELSE Len(t[1].cells)

\* the result of a stage, or of a statement of one: the table as the
\* statement left it, and the exception it raised ("" if none)
Ok(t) == [ok |-> TRUE, df |-> t, err |-> ""]
Raise(t, e) == [ok |-> FALSE, df |-> t, err |-> e]

\* df[name]: a missing label raises KeyError
GetErr(t, name) == IF Locs(t, name) = {} THEN "KeyError" ELSE ""

\* df[name].str: df[name] is a DataFrame when the label is duplicated, and a
\* DataFrame has no attribute str; a Series of a non-object dtype refuses the
\* accessor.  Both raise AttributeError.
StrErr(t, name) ==
    IF Locs(t, name) = {} THEN "KeyError"
    ELSE IF Cardinality(Locs(t, name)) > 1 THEN "AttributeError"
    ELSE IF t[Loc(t, name)].dtype # "object" THEN "AttributeError"
    ELSE ""

\* df[name] = <cells of dtype>, the label present once
SetCol(t, name, dtype, cells) ==
    [t EXCEPT ![Loc(t, name)] = Col(name, dtype, cells)]

CellsOf(t, name) == t[Loc(t, name)].cells

----------------------------------------------------------------------------
(* Column labels the stages use *)

N_st == <<"s","t">>
N_state == <<"s","t","a","t","e">>
N_income == <<"i","n","c","o","m","e">>
N_customer_income == <<"c","u","s","t","o","m","e","r","_","i","n","c","o","m","e">>
N_customer == <<"c","u","s","t","o","m","e","r">>
N_gender == <<"g","e","n","d","e","r">>
N_education == <<"e","d","u","c","a","t","i","o","n">>
N_policy_type == <<"p","o","l","i","c","y","_","t","y","p","e">>
N_vehicle_class == <<"v","e","h","i","c","l","e","_","c","l","a","s","s">>
N_total_claim_amount == <<"t","o","t","a","l","_","c","l","a","i","m","_","a","m","o","u","n","t">>
N_monthly_premium_auto == <<"m","o","n","t","h","l","y","_","p","r","e","m","i","u","m","_","a","u","t","o">>
N_customer_lifetime_value == <<"c","u","s","t","o","m","e","r","_","l","i","f","e","t","i","m","e","_","v","a","l","u","e">>
N_number_of_open_complaints == <<"n","u","m","b","e","r","_","o","f","_","o","p","e","n","_","c","o","m","p","l","a","i","n","t","s">>
N_complaints_missing == <<"c","o","m","p","l","a","i","n","t","s","_","m","i","s","s","i","n","g">>

----------------------------------------------------------------------------
(* Stage 1: clean_column_names *)

\* df.columns = df.columns.str.lower(); df.columns = df.columns.str.replace(' ', '_')
\* Both assignments change the object df is bound to, in place.
\* faulty variant: the second assignment to df.columns left out
LowerUnderscore_LowerOnly(name) == StrLower(name)

LowerUnderscore(name) == StrReplaceSpace(StrLower(name))

SetColumnsInPlace(t) == [i \in DOMAIN t |-> [t[i] EXCEPT !.name = LowerUnderscore(@)]]

\* df.rename(columns={'st': 'state', 'income': 'customer_income'}): one pass
\* over the labels, each looked up in the mapping
RenameLabel(name) ==
    IF name = N_st THEN N_state
    ELSE IF name = N_income THEN N_customer_income
    ELSE name

Rename(t) == [i \in DOMAIN t |-> [t[i] EXCEPT !.name = RenameLabel(@)]]

\* faulty variant: rename(..., inplace=True) on the object handed in
RenameReturnsNewObject_InPlace == FALSE

\* rename is called without inplace=True: it returns a new object
RenameReturnsNewObject == TRUE

clean_column_names(t) == Ok(Rename(SetColumnsInPlace(t)))

----------------------------------------------------------------------------
(* Stages 2, 4, 5: df.loc[df[name].str.contains(pattern, na=False), name] = value *)

\* the patterns of the stages: a character class anchored at the start, or a
\* word between word boundaries
StartClass(set) == [kind |-> "start", set |-> set, word |-> << >>]
WholeWord(w) == [kind |-> "word", set |-> {}, word |-> w]

\* re.search(pattern, s)
ReSearch(pattern, s) ==
    IF pattern.kind = "start" THEN StartsWithOneOf(s, pattern.set)
    ELSE ContainsWord(s, pattern.word)

\* Series.str.contains(pattern, na=False): a null cell does not match
StrContains(cells, pattern) ==
    [i \in DOMAIN cells |-> IsStr(cells[i]) /\ ReSearch(pattern, cells[i].s)]

\* one such statement
LocAssign(t, name, pattern, value) ==
    IF StrErr(t, name) # "" THEN Raise(t, StrErr(t, name))
    ELSE LET cells == CellsOf(t, name)
             mask == StrContains(cells, pattern)
         IN  Ok(SetCol(t, name, "object",
                       [i \in DOMAIN cells |-> IF mask[i] THEN Str(value) ELSE cells[i]]))

\* r'^[Ff]' and r'^[Mm]'
PatternF == StartClass({"F", "f"})
PatternM == StartClass({"M", "m"})

standardize_gender(t) ==
    LET r == LocAssign(t, N_gender, PatternF, <<"F">>)
    IN  IF ~r.ok THEN r ELSE LocAssign(r.df, N_gender, PatternM, <<"M">>)

\* r'^[Bb]'
PatternB == StartClass({"B", "b"})

standardize_education(t) == LocAssign(t, N_education, PatternB, <<"B","a","c","h","e","l","o","r">>)

\* r'^[Lu]': the class holds the two characters L and u
PatternLu == StartClass({"L", "u"})
\* r'\bSports\b'
PatternSports == WholeWord(Sports)

Luxury == <<"L","u","x","u","r","y">>

standardize_vehicle_class(t) ==
    LET r == LocAssign(t, N_vehicle_class, PatternLu, Luxury)
    IN  IF ~r.ok THEN r ELSE LocAssign(r.df, N_vehicle_class, PatternSports, Luxury)

----------------------------------------------------------------------------
(* Stage 3: standardize_state *)

\* state_mapping, as <<key, value>> pairs
state_mapping == {
    <<<<"A","L">>, <<"A","L","A","B","A","M","A">>>>,
    <<<<"A","K">>, <<"A","L","A","S","K","A">>>>,
    <<<<"A","Z">>, <<"A","R","I","Z","O","N","A">>>>,
    <<<<"A","R">>, <<"A","R","K","A","N","S","A","S">>>>,
    <<<<"C","A">>, <<"C","A","L","I","F","O","R","N","I","A">>>>,
    <<<<"C","A","L","I">>, <<"C","A","L","I","F","O","R","N","I","A">>>>,
    <<<<"C","O">>, <<"C","O","L","O","R","A","D","O">>>>,
    <<<<"C","T">>, <<"C","O","N","N","E","C","T","I","C","U","T">>>>,
    <<<<"D","E">>, <<"D","E","L","A","W","A","R","E">>>>,
    <<<<"F","L">>, <<"F","L","O","R","I","D","A">>>>,
    <<<<"G","A">>, <<"G","E","O","R","G","I","A">>>>,
    <<<<"H","I">>, <<"H","A","W","A","I","I">>>>,
    <<<<"I","D">>, <<"I","D","A","H","O">>>>,
    <<<<"I","L">>, <<"I","L","L","I","N","O","I","S">>>>,
    <<<<"I","N">>, <<"I","N","D","I","A","N","A">>>>,
    <<<<"I","A">>, <<"I","O","W","A">>>>,
    <<<<"K","S">>, <<"K","A","N","S","A","S">>>>,
    <<<<"K","Y">>, <<"K","E","N","T","U","C","K","Y">>>>,
    <<<<"L","A">>, <<"L","O","U","I","S","I","A","N","A">>>>,
    <<<<"M","E">>, <<"M","A","I","N","E">>>>,
    <<<<"M","D">>, <<"M","A","R","Y","L","A","N","D">>>>,
    <<<<"M","A">>, <<"M","A","S","S","A","C","H","U","S","E","T","T","S">>>>,
    <<<<"M","I">>, <<"M","I","C","H","I","G","A","N">>>>,
    <<<<"M","N">>, <<"M","I","N","N","E","S","O","T","A">>>>,
    <<<<"M","S">>, <<"M","I","S","S","I","S","S","I","P","P","I">>>>,
    <<<<"M","O">>, <<"M","I","S","S","O","U","R","I">>>>,
    <<<<"M","T">>, <<"M","O","N","T","A","N","A">>>>,
    <<<<"N","E">>, <<"N","E","B","R","A","S","K","A">>>>,
    <<<<"N","V">>, <<"N","E","V","A","D","A">>>>,
    <<<<"N","H">>, <<"N","E","W"," ","H","A","M","P","S","H","I","R","E">>>>,
    <<<<"N","J">>, <<"N","E","W"," ","J","E","R","S","E","Y">>>>,
    <<<<"N","M">>, <<"N","E","W"," ","M","E","X","I","C","O">>>>,
    <<<<"N","Y">>, <<"N","E","W"," ","Y","O","R","K">>>>,
    <<<<"N","C">>, <<"N","O","R","T","H"," ","C","A","R","O","L","I","N","A">>>>,
    <<<<"N","D">>, <<"N","O","R","T","H"," ","D","A","K","O","T","A">>>>,
    <<<<"O","H">>, <<"O","H","I","O">>>>,
    <<<<"O","K">>, <<"O","K","L","A","H","O","M","A">>>>,
    <<<<"O","R">>, <<"O","R","E","G","O","N">>>>,
    <<<<"P","A">>, <<"P","E","N","N","S","Y","L","V","A","N","I","A">>>>,
    <<<<"R","I">>, <<"R","H","O","D","E"," ","I","S","L","A","N","D">>>>,
    <<<<"S","C">>, <<"S","O","U","T","H"," ","C","A","R","O","L","I","N","A">>>>,
    <<<<"S","D">>, <<"S","O","U","T","H"," ","D","A","K","O","T","A">>>>,
    <<<<"T","N">>, <<"T","E","N","N","E","S","S","E","E">>>>,
    <<<<"T","X">>, <<"T","E","X","A","S">>>>,
    <<<<"U","T">>, <<"U","T","A","H">>>>,
    <<<<"V","T">>, <<"V","E","R","M","O","N","T">>>>,
    <<<<"V","A">>, <<"V","I","R","G","I","N","I","A">>>>,
    <<<<"W","A">>, <<"W","A","S","H","I","N","G","T","O","N">>>>,
    <<<<"W","V">>, <<"W","E","S","T"," ","V","I","R","G","I","N","I","A">>>>,
    <<<<"W","I">>, <<"W","I","S","C","O","N","S","I","N">>>>,
    <<<<"W","Y">>, <<"W","Y","O","M","I","N","G">>>>
}

MappingKeys == {p[1] : p \in state_mapping}
MappingValues == {p[2] : p \in state_mapping}

MappingGet(k) == (CHOOSE p \in state_mapping : p[1] = k)[2]

\* Series.replace(state_mapping): a value equal to a key becomes the key's
\* value, every other value stays
ReplaceMapped(s) == IF s \in MappingKeys THEN MappingGet(s) ELSE s

\* faulty variant: replace(state_mapping) without str.upper()
StateCell_NoUpper(c) == IF IsStr(c) THEN Str(ReplaceMapped(c.s)) ELSE c

\* faulty variant: replace(state_mapping) before str.upper()
StateCell_ReplaceThenUpper(c) == IF IsStr(c) THEN Str(StrUpper(ReplaceMapped(c.s))) ELSE c

\* df['state'] = df['state'].str.upper().replace(state_mapping)
StateCell(c) == IF IsStr(c) THEN Str(ReplaceMapped(StrUpper(c.s))) ELSE c

standardize_state(t) ==
    IF StrErr(t, N_state) # "" THEN Raise(t, StrErr(t, N_state))
    ELSE LET cells == CellsOf(t, N_state)
         IN  Ok(SetCol(t, N_state, "object", [i \in DOMAIN cells |-> StateCell(cells[i])]))

----------------------------------------------------------------------------
(* Stage 6: clean_and_convert_numerical *)

DigitVal(c) == IndexIn(Digits, c) - 1

RECURSIVE DigitsValue(_)
DigitsValue(s) ==
    IF s = << >> THEN 0
    ELSE 10 * DigitsValue(SubSeq(s, 1, Len(s) - 1)) + DigitVal(s[Len(s)])

RECURSIVE Pow10(_)
Pow10(k) == IF k = 0 THEN 1 ELSE 10 * Pow10(k - 1)

AllDigits(s) == \A i \in DOMAIN s : IsDigitCh(s[i])

\* pd.to_numeric(..., errors='coerce') on one str, for text over digits, sign,
\* point and other characters that are no part of a number: an optional sign,
\* then digits around at most one point, with a digit somewhere.  Exponents,
\* inf/nan spellings and padding are not among the texts drawn.
Unsigned(s) == IF s # << >> /\ s[1] \in {"-", "+"} THEN SubSeq(s, 2, Len(s)) ELSE s

Points(s) == {i \in DOMAIN s : s[i] = "."}

IsFloatText(s) ==
    LET u == Unsigned(s)
    IN  /\ \A i \in DOMAIN u : IsDigitCh(u[i]) \/ u[i] = "."
        /\ Cardinality(Points(u)) <= 1
        /\ \E i \in DOMAIN u : IsDigitCh(u[i])

FloatOf(s) ==
    LET u == Unsigned(s)
        p == IF Points(u) = {} THEN Len(u) + 1 ELSE CHOOSE i \in Points(u) : TRUE
        whole == SubSeq(u, 1, p - 1)
        frac == SubSeq(u, p + 1, Len(u))
        mag == DigitsValue(whole \o frac)
    IN  Num(IF s[1] = "-" THEN -mag ELSE mag, Pow10(Len(frac)))

ToNumericFloat(c) == IF IsStr(c) /\ IsFloatText(c.s) THEN FloatOf(c.s) ELSE Null

\* .str.rstrip('%')
RStripCell(c) == IF IsStr(c) THEN Str(StrRStripPct(c.s)) ELSE c

\* .str.extract(r'/(\d+)/'): the first place where a slash, a maximal run of
\* one or more digits and a slash follow each other; the run is the group
DigitRunEnd(s, i) ==
    CHOOSE j \in i..Len(s) :
        /\ \A k \in (i + 1)..j : IsDigitCh(s[k])
        /\ (j = Len(s) \/ ~IsDigitCh(s[j + 1]))

MatchAt(s, i) ==
    /\ s[i] = "/"
    /\ DigitRunEnd(s, i) > i
    /\ DigitRunEnd(s, i) < Len(s)
    /\ s[DigitRunEnd(s, i) + 1] = "/"

MatchStarts(s) == {i \in DOMAIN s : MatchAt(s, i)}

FirstMatch(s) == CHOOSE i \in MatchStarts(s) : \A j \in MatchStarts(s) : i <= j

ExtractCell(c) ==
    IF IsStr(c) /\ MatchStarts(c.s) # {}
    THEN Str(SubSeq(c.s, FirstMatch(c.s) + 1, DigitRunEnd(c.s, FirstMatch(c.s))))
    ELSE Null

\* The largest Int64, 2^63 - 1, by its digits
Int64MaxDigits == <<"9","2","2","3","3","7","2","0","3","6","8","5","4","7","7","5","8","0","7">>

RECURSIVE StripZeros(_)
StripZeros(s) == IF Len(s) > 1 /\ s[1] = "0" THEN StripZeros(Tail(s)) ELSE s

\* lexicographic order on digit texts of equal length
RECURSIVE DigitsGreater(_, _)
DigitsGreater(a, b) ==
    IF a = << >> THEN FALSE
    ELSE IF a[1] # b[1] THEN DigitVal(a[1]) > DigitVal(b[1])
    ELSE DigitsGreater(Tail(a), Tail(b))

\* the integer a digit text spells is above 2^63 - 1
ExceedsInt64(s) ==
    LET z == StripZeros(s)
    IN  \/ Len(z) > Len(Int64MaxDigits)
        \/ Len(z) = Len(Int64MaxDigits) /\ DigitsGreater(z, Int64MaxDigits)

\* pd.to_numeric(..., errors='coerce').astype('Int64') on the extracted
\* groups: a group above 2^63 - 1 comes out of to_numeric as a uint64 or a
\* float64, which astype('Int64') refuses to cast (TypeError)
CastOverflows(cells) == \E i \in DOMAIN cells : IsStr(cells[i]) /\ ExceedsInt64(cells[i].s)

ToInt64Cell(c) == IF IsStr(c) /\ AllDigits(c.s) /\ c.s # << >> THEN IntCell(DigitsValue(c.s)) ELSE Null

clean_and_convert_numerical(t) ==
    IF StrErr(t, N_customer_lifetime_value) # ""
    THEN Raise(t, StrErr(t, N_customer_lifetime_value))
    ELSE
    LET c0 == CellsOf(t, N_customer_lifetime_value)
        c1 == [i \in DOMAIN c0 |-> RStripCell(c0[i])]
        c2 == [i \in DOMAIN c1 |-> ToNumericFloat(c1[i])]
        t2 == SetCol(t, N_customer_lifetime_value, "float64", c2)
    IN  IF StrErr(t2, N_number_of_open_complaints) # ""
        THEN Raise(t2, StrErr(t2, N_number_of_open_complaints))
        ELSE
        LET n0 == CellsOf(t2, N_number_of_open_complaints)
            n1 == [i \in DOMAIN n0 |-> ExtractCell(n0[i])]
            t3 == SetCol(t2, N_number_of_open_complaints, "object", n1)
        IN  IF CastOverflows(n1)
            THEN Raise(t3, "TypeError")
            ELSE Ok(SetCol(t3, N_number_of_open_complaints, "Int64",
                           [i \in DOMAIN n1 |-> ToInt64Cell(n1[i])]))

----------------------------------------------------------------------------
(* Stage 7: handle_missing_values *)

categorical_cols ==
    <<N_customer, N_state, N_gender, N_education, N_policy_type, N_vehicle_class>>
numerical_cols ==
    <<N_total_claim_amount, N_monthly_premium_auto, N_customer_income,
      N_customer_lifetime_value>>

Unknown == <<"U","n","k","n","o","w","n">>

\* df[col] for a fill: a missing label raises KeyError.  With the label
\* duplicated df[col] is a DataFrame, and what fillna and median make of it is
\* not settled by this source; the run is ended there as "DuplicateLabel", and
\* no table drawn by Init reaches stage 7 with such a label (NoDuplicateFill).
FillErr(t, name) ==
    IF Locs(t, name) = {} THEN "KeyError"
    ELSE IF Cardinality(Locs(t, name)) > 1 THEN "DuplicateLabel"
    ELSE ""

\* Series.fillna('Unknown')
FillUnknownCell(c) == IF IsNull(c) THEN Str(Unknown) ELSE c

FillCategorical(t, name) ==
    LET cells == CellsOf(t, name)
        filled == [i \in DOMAIN cells |-> FillUnknownCell(cells[i])]
        dtype == IF filled # cells THEN "object" ELSE t[Loc(t, name)].dtype
    IN  SetCol(t, name, dtype, filled)

\* the non-null values of a column, in row order
RECURSIVE NonNull(_)
NonNull(cells) ==
    IF cells = << >> THEN << >>
    ELSE IF IsNull(cells[1]) THEN NonNull(Tail(cells))
    ELSE <<cells[1]>> \o NonNull(Tail(cells))

RECURSIVE InsertSorted(_, _)
InsertSorted(sorted, x) ==
    IF sorted = << >> THEN <<x>>
    ELSE IF NumLess(x, sorted[1]) THEN <<x>> \o sorted
    ELSE <<sorted[1]>> \o InsertSorted(Tail(sorted), x)

RECURSIVE SortNums(_)
SortNums(s) == IF s = << >> THEN << >> ELSE InsertSorted(SortNums(Tail(s)), s[1])

\* faulty variant: the upper middle value for an even count
Median_UpperMiddle(cells) ==
    LET s == SortNums(NonNull(cells))
        n == Len(s)
    IN  IF n = 0 THEN Null ELSE s[n \div 2 + 1]

\* Series.median(): nulls skipped; the middle of the sorted values, the mean
\* of the two middle ones for an even count, NaN for no value at all
Median(cells) ==
    LET s == SortNums(NonNull(cells))
        n == Len(s)
    IN  IF n = 0 THEN Null
        ELSE IF n % 2 = 1 THEN s[(n + 1) \div 2]
        ELSE NumMean(s[n \div 2], s[n \div 2 + 1])

\* Series.fillna(m): a null cell becomes m (fillna(NaN) leaves it null)
FillNaCells(cells, m) == [i \in DOMAIN cells |-> IF IsNull(cells[i]) THEN m ELSE cells[i]]

\* median() needs a numeric dtype: on an object column of text it raises TypeError
MedianErr(t, name) == IF t[Loc(t, name)].dtype = "object" THEN "TypeError" ELSE ""

FillNumerical(t, name) ==
    SetCol(t, name, t[Loc(t, name)].dtype, FillNaCells(CellsOf(t, name), Median(CellsOf(t, name))))

\* faulty variant: notnull() in place of isnull()
IsNullCells_NotNull(cells) == [i \in DOMAIN cells |-> BoolCell(~IsNull(cells[i]))]

\* Series.isnull()
IsNullCells(cells) == [i \in DOMAIN cells |-> BoolCell(IsNull(cells[i]))]

\* df['complaints_missing'] = ...: a new label is appended, a present one is
\* overwritten
SetFlag(t, cells) ==
    IF Locs(t, N_complaints_missing) = {}
    THEN Append(t, Col(N_complaints_missing, "bool", cells))
    ELSE [i \in DOMAIN t |-> IF t[i].name = N_complaints_missing
                             THEN Col(N_complaints_missing, "bool", cells) ELSE t[i]]

\* the first loop, from its k-th column on
RECURSIVE FillCategoricalFrom(_, _)
FillCategoricalFrom(t, k) ==
    IF k > Len(categorical_cols) THEN Ok(t)
    ELSE IF FillErr(t, categorical_cols[k]) # "" THEN Raise(t, FillErr(t, categorical_cols[k]))
    ELSE FillCategoricalFrom(FillCategorical(t, categorical_cols[k]), k + 1)

\* the second loop, from its k-th column on
RECURSIVE FillNumericalFrom(_, _)
FillNumericalFrom(t, k) ==
    IF k > Len(numerical_cols) THEN Ok(t)
    ELSE IF FillErr(t, numerical_cols[k]) # "" THEN Raise(t, FillErr(t, numerical_cols[k]))
    ELSE IF MedianErr(t, numerical_cols[k]) # "" THEN Raise(t, MedianErr(t, numerical_cols[k]))
    ELSE FillNumericalFrom(FillNumerical(t, numerical_cols[k]), k + 1)

MissingFlag(t) ==
    IF FillErr(t, N_number_of_open_complaints) # ""
    THEN Raise(t, FillErr(t, N_number_of_open_complaints))
    ELSE Ok(SetFlag(t, IsNullCells(CellsOf(t, N_number_of_open_complaints))))

handle_missing_values(t) ==
    LET r1 == FillCategoricalFrom(t, 1)
    IN  IF ~r1.ok THEN r1
        ELSE LET r2 == FillNumericalFrom(r1.df, 1)
             IN  IF ~r2.ok THEN r2 ELSE MissingFlag(r2.df)

----------------------------------------------------------------------------
(* main_cleaning_pipeline *)

\* the stages in the order of the calls
Stage(k, t) ==
    CASE k = 1 -> clean_column_names(t)
      [] k = 2 -> standardize_gender(t)
      [] k = 3 -> standardize_state(t)
      [] k = 4 -> standardize_education(t)
      [] k = 5 -> standardize_vehicle_class(t)
      [] k = 6 -> clean_and_convert_numerical(t)
      [] k = 7 -> handle_missing_values(t)

NStages == 7

Running == err = "" /\ ret = << >>

\* df = clean_column_names(df): the two assignments to df.columns change the
\* caller's object, rename returns the object the later stages work on
RunClean ==
    /\ Running /\ pc = 1
    /\ LET inplace == SetColumnsInPlace(df)
           r == clean_column_names(df)
       IN  /\ pre' = df
           /\ df' = r.df
           /\ alias' = (alias /\ ~RenameReturnsNewObject)
           /\ caller' = IF ~alias THEN caller
                        ELSE IF RenameReturnsNewObject THEN inplace ELSE r.df
           /\ pc' = 2
           /\ err' = r.err
    /\ started' = Append(started, 1)
    /\ UNCHANGED <<input, ret>>

\* faulty variant: a stage that raises is skipped and the run goes on
RunStage_SkipOnError(k) ==
    /\ LET r == Stage(k, df)
       IN  /\ pre' = df
           /\ df' = IF r.ok THEN r.df ELSE df
           /\ caller' = IF alias /\ r.ok THEN r.df ELSE caller
           /\ pc' = k + 1
           /\ err' = ""
    /\ started' = Append(started, k)
    /\ UNCHANGED <<input, alias, ret>>

\* df = <stage k>(df), k in 2..7: the stage writes to the object df is bound
\* to and returns it; an exception leaves the function
RunStage(k) ==
    /\ LET r == Stage(k, df)
       IN  /\ pre' = df
           /\ df' = r.df
           /\ caller' = IF alias THEN r.df ELSE caller
           /\ pc' = IF r.ok THEN k + 1 ELSE k
           /\ err' = r.err
    /\ started' = Append(started, k)
    /\ UNCHANGED <<input, alias, ret>>

RunGender == Running /\ pc = 2 /\ RunStage(2)
RunState == Running /\ pc = 3 /\ RunStage(3)
RunEducation == Running /\ pc = 4 /\ RunStage(4)
RunVehicleClass == Running /\ pc = 5 /\ RunStage(5)
RunNumerical == Running /\ pc = 6 /\ RunStage(6)
RunMissing == Running /\ pc = 7 /\ RunStage(7)

\* return df
Return ==
    /\ Running /\ pc = NStages + 1
    /\ ret' = <<df>>
    /\ UNCHANGED <<input, caller, df, alias, pre, pc, started, err>>

Next ==
    \/ RunClean
    \/ RunGender
    \/ RunState
    \/ RunEducation
    \/ RunVehicleClass
    \/ RunNumerical
    \/ RunMissing
    \/ Return

----------------------------------------------------------------------------
(* The tables the pipeline is run on *)

MaxLen == 3     \* longest text drawn letter by letter
MaxRows == 4    \* most rows of a drawn table
MaxMissing == 2 \* most raw headers a drawn table lacks

\* the columns of a customer table: a row is a record over these fields
DType == [customer |-> "object", state |-> "object", gender |-> "object",
          education |-> "object", policy_type |-> "object", vehicle_class |-> "object",
          total_claim_amount |-> "float64", monthly_premium_auto |-> "float64",
          customer_income |-> "float64", customer_lifetime_value |-> "object",
          number_of_open_complaints |-> "object"]

H(f, name) == [f |-> f, name |-> name]

\* the raw headers of the customer file
RawHeaders == <<
    H("customer", <<"C","u","s","t","o","m","e","r">>), H("state", <<"S","T">>), H("gender", <<"G","E","N","D","E","R">>),
    H("education", <<"E","d","u","c","a","t","i","o","n">>),
    H("customer_lifetime_value", <<"C","u","s","t","o","m","e","r"," ","L","i","f","e","t","i","m","e"," ","V","a","l","u","e">>),
    H("customer_income", <<"I","n","c","o","m","e">>),
    H("monthly_premium_auto", <<"M","o","n","t","h","l","y"," ","P","r","e","m","i","u","m"," ","A","u","t","o">>),
    H("number_of_open_complaints", <<"N","u","m","b","e","r"," ","o","f"," ","O","p","e","n"," ","C","o","m","p","l","a","i","n","t","s">>),
    H("policy_type", <<"P","o","l","i","c","y"," ","T","y","p","e">>), H("vehicle_class", <<"V","e","h","i","c","l","e"," ","C","l","a","s","s">>),
    H("total_claim_amount", <<"T","o","t","a","l"," ","C","l","a","i","m"," ","A","m","o","u","n","t">>) >>

\* further spellings, pairwise distinct from the raw ones, that meet a raw
\* header after stage 1
ExtraHeaders == <<
    H("state", <<"S","t","a","t","e">>), H("gender", <<"G","e","n","d","e","r">>),
    H("customer_income", <<"C","u","s","t","o","m","e","r"," ","I","n","c","o","m","e">>) >>

MakeTable(hdrs, rows) ==
    [i \in DOMAIN hdrs |->
        Col(hdrs[i].name, DType[hdrs[i].f], [r \in DOMAIN rows |-> rows[r][hdrs[i].f]])]

F(n) == Num(n, 1)

BaseRow ==
    [customer |-> Str(<<"R","B","5","0","3","9","2">>), state |-> Str(<<"W","a","s","h","i","n","g","t","o","n">>), gender |-> Str(<<"F">>),
     education |-> Str(<<"M","a","s","t","e","r">>), policy_type |-> Str(<<"P","e","r","s","o","n","a","l"," ","A","u","t","o">>),
     vehicle_class |-> Str(<<"F","o","u","r","-","D","o","o","r"," ","C","a","r">>), total_claim_amount |-> F(2),
     monthly_premium_auto |-> F(1000), customer_income |-> F(48767),
     customer_lifetime_value |-> Str(<<"6","9","7","9","5","3",".","5","9","%">>),
     number_of_open_complaints |-> Str(<<"1","/","0","/","0","0">>)]

\* every text of at most MaxLen characters over an alphabet
Texts(alphabet) == UNION {[1..n -> alphabet] : n \in 0..MaxLen}

TextCells(alphabet, more) == {Null} \cup {Str(s) : s \in Texts(alphabet) \cup more}

GenderCells == TextCells({"F", "m", "x"}, {<<"f","e","m","a","l","e">>, <<"F","e","m","a","l">>, <<"M","a","l","e">>, <<"M">>, <<"f">>})
StateCells == TextCells({"c", "A", "l"},
    {<<"c","a">>, <<"C","a","l","i">>, <<"c","a","l","i">>, <<"C","A","L","I">>, <<"W","A">>, <<"w","a">>, <<"W","a","s","h","i","n","g","t","o","n">>, <<"C","A","L","I","F","O","R","N","I","A">>,
     <<"O","r","e","g","o","n">>, <<"n","y">>, <<"N"," ","Y">>, <<"z","z">>})
EducationCells == TextCells({"B", "b", "M"},
    {<<"B","a","c","h"," ","o","f"," ","S","c","i","e","n","c","e">>, <<"B","a","c","h","e","l","o","r","s">>, <<"b","a","c","h","e","l","o","r">>, <<"H","i","g","h"," ","S","c","h","o","o","l"," ","o","r"," ","B","e","l","o","w">>, <<"M","a","s","t","e","r">>})
VehicleCells == TextCells({"L", "l", "U", "u"},
    {<<"l","u","x","u","r","y"," ","c","a","r">>, <<"L","u","x","u","r","y"," ","S","U","V">>, <<"L","u","x","u","r","y"," ","C","a","r">>, <<"S","p","o","r","t","s"," ","C","a","r">>, <<"S","p","o","r","t","s","C","a","r">>,
     <<"S","p","o","r","t","s">>, <<"s","p","o","r","t","s"," ","c","a","r">>, <<"S","p","o","r","t","s","_","C","a","r">>, <<"T","w","o","-","S","p","o","r","t","s","-","D","o","o","r">>, <<"x","S","p","o","r","t","s">>,
     <<"u","p","s","c","a","l","e">>, <<"U","p","s","c","a","l","e">>, <<"S","U","V">>, <<"F","o","u","r","-","D","o","o","r"," ","C","a","r">>})
LifetimeValueCells == TextCells({"5", ".", "%", "-"},
    {<<"8","9","7",".","2","3","%">>, <<"b","o","g","u","s">>, <<"1","2","x">>, <<"5",".","5","%","%">>, <<"1",".","5",".","1">>, <<"%","5">>, <<"+","5">>, <<"0","5",".","5","0">>})
ComplaintsCells == TextCells({"/", "1", "0", "x"},
    {<<"1","/","5","/","0","0">>, <<"b","o","g","u","s">>, <<"1","/","0","5","/","0","0">>, <<"x","/","1","2","/","y">>, <<"/","x","/","5","/">>, <<"1","/","2","/","3","/","4">>, <<"1","/","/","5","/">>,
     <<"1","/","-","5","/","0","0">>, <<"1","/","9","9","9","9","9","9","9","9","9","9","9","9","9","9","9","9","9","9","9","9","/","0","0">>, <<"1","/","9","2","2","3","3","7","2","0","3","6","8","5","4","7","7","5","8","0","8","/","0","0">>,
     <<"1","/","0","0","0","9","/","0","0">>})

\* one row, one of its text cells drawn
TextRows ==
    {[BaseRow EXCEPT !.gender = c] : c \in GenderCells}
    \cup {[BaseRow EXCEPT !.state = c] : c \in StateCells}
    \cup {[BaseRow EXCEPT !.education = c] : c \in EducationCells}
    \cup {[BaseRow EXCEPT !.vehicle_class = c] : c \in VehicleCells}
    \cup {[BaseRow EXCEPT !.customer_lifetime_value = c] : c \in LifetimeValueCells}
    \cup {[BaseRow EXCEPT !.number_of_open_complaints = c] : c \in ComplaintsCells}

\* rows that differ in many cells, for tables of several rows
SampleRows == {
    [customer |-> Str(<<"Q","Z","4","4","3","5","6">>), state |-> Str(<<"c","a">>), gender |-> Str(<<"f","e","m","a","l","e">>),
     education |-> Str(<<"B","a","c","h"," ","o","f"," ","S","c","i","e","n","c","e">>), policy_type |-> Str(<<"P","e","r","s","o","n","a","l"," ","A","u","t","o">>),
     vehicle_class |-> Str(<<"l","u","x","u","r","y"," ","c","a","r">>), total_claim_amount |-> F(1131),
     monthly_premium_auto |-> F(94), customer_income |-> F(10000),
     customer_lifetime_value |-> Str(<<"8","9","7",".","2","3","%">>),
     number_of_open_complaints |-> Str(<<"1","/","5","/","0","0">>)],
    [customer |-> Str(<<"A","I","4","9","1","8","8">>), state |-> Str(<<"N","e","v","a","d","a">>), gender |-> Str(<<"M","a","l","e">>),
     education |-> Str(<<"B","a","c","h","e","l","o","r">>), policy_type |-> Str(<<"C","o","r","p","o","r","a","t","e"," ","A","u","t","o">>),
     vehicle_class |-> Str(<<"S","p","o","r","t","s"," ","C","a","r">>), total_claim_amount |-> F(566),
     monthly_premium_auto |-> F(108), customer_income |-> F(20000),
     customer_lifetime_value |-> Str(<<"5",".","5">>),
     number_of_open_complaints |-> Str(<<"b","o","g","u","s">>)],
    [customer |-> Str(<<"W","W","6","3","2","5","3">>), state |-> Str(<<"A","Z">>), gender |-> Null,
     education |-> Str(<<"C","o","l","l","e","g","e">>), policy_type |-> Null,
     vehicle_class |-> Str(<<"S","U","V">>), total_claim_amount |-> F(529),
     monthly_premium_auto |-> Null, customer_income |-> F(30000),
     customer_lifetime_value |-> Str(<<"1","2","%">>),
     number_of_open_complaints |-> Str(<<"1","/","0","/","0","0">>)],
    [customer |-> Str(<<"G","A","4","9","5","4","7">>), state |-> Null, gender |-> Str(<<"M">>),
     education |-> Null, policy_type |-> Str(<<"S","p","e","c","i","a","l"," ","A","u","t","o">>),
     vehicle_class |-> Null, total_claim_amount |-> Null,
     monthly_premium_auto |-> F(61), customer_income |-> Null,
     customer_lifetime_value |-> Str(<<"b","o","g","u","s">>),
     number_of_open_complaints |-> Null],
    [customer |-> Null, state |-> Null, gender |-> Null,
     education |-> Null, policy_type |-> Null,
     vehicle_class |-> Null, total_claim_amount |-> Null,
     monthly_premium_auto |-> Null, customer_income |-> Null,
     customer_lifetime_value |-> Null,
     number_of_open_complaints |-> Null],
    [customer |-> Str(<<"O","C","8","3","1","7","2">>), state |-> Str(<<"C","a","l","i">>), gender |-> Str(<<"F","e","m","a","l">>),
     education |-> Str(<<"B","a","c","h","e","l","o","r","s">>), policy_type |-> Str(<<"P","e","r","s","o","n","a","l"," ","A","u","t","o">>),
     vehicle_class |-> Str(<<"L","u","x","u","r","y"," ","S","U","V">>), total_claim_amount |-> F(17),
     monthly_premium_auto |-> F(69), customer_income |-> F(20000),
     customer_lifetime_value |-> Str(<<"-","5">>),
     number_of_open_complaints |-> Str(<<"1","/","2","/","0","0">>)] }

\* the headers picked by a set of positions, in order
RECURSIVE Pick(_, _)
Pick(hdrs, S) ==
    IF hdrs = << >> THEN << >>
    ELSE (IF Len(hdrs) \in S THEN Pick(SubSeq(hdrs, 1, Len(hdrs) - 1), S) \o <<hdrs[Len(hdrs)]>>
          ELSE Pick(SubSeq(hdrs, 1, Len(hdrs) - 1), S))

AllHeaders == RawHeaders \o ExtraHeaders

\* the stages before handle_missing_values all succeed on t
RECURSIVE ReachesStage(_, _, _)
ReachesStage(t, k, last) ==
    IF k > last THEN TRUE
    ELSE Stage(k, t).ok /\ ReachesStage(Stage(k, t).df, k + 1, last)

FillLabels == Range(categorical_cols) \cup Range(numerical_cols)
                \cup {N_number_of_open_complaints}

DuplicateFill(t) ==
    LET t1 == clean_column_names(t).df
    IN  \E name \in FillLabels : Cardinality(Locs(t1, name)) > 1

\* the choices of headers: all raw headers but at most MaxMissing, and any of
\* the further spellings
HeaderChoices ==
    {S \in SUBSET DOMAIN AllHeaders :
        Cardinality(DOMAIN RawHeaders \ S) <= MaxMissing}

\* a table over a choice of headers, with the one base row
HeaderTable(S) == MakeTable(Pick(AllHeaders, S), <<BaseRow>>)

\* a one-row table under the raw headers
TextTable(r) == MakeTable(RawHeaders, <<r>>)

\* a table of several rows under the raw headers
RowTable(rows) == MakeTable(RawHeaders, rows)

\* the tables drawn: any choice of headers over the base row; one row with
\* one text cell drawn; up to MaxRows sample rows
Drawn(t) ==
    \/ \E S \in HeaderChoices :
          /\ t = HeaderTable(S)
          /\ ~(DuplicateFill(t) /\ ReachesStage(t, 1, NStages - 1))
    \/ \E r \in TextRows : t = TextTable(r)
    \/ \E n \in 1..MaxRows : \E rows \in [1..n -> SampleRows] : t = RowTable(rows)

Init ==
    /\ Drawn(input)
    /\ caller = input
    /\ df = input
    /\ alias = TRUE
    /\ pre = input
    /\ pc = 1
    /\ started = << >>
    /\ err = ""
    /\ ret = << >>

Spec == Init /\ [][Next]_vars

----------------------------------------------------------------------------
(* Properties *)

\* stage k has just completed: df is its result, pre the table it started on
JustAfter(k) == pc = k + 1 /\ err = "" /\ Len(started) = k

\* the run was ended by stage k raising
FailedAt(k) == pc = k /\ err # "" /\ Len(started) = k

Returned == ret # << >>

Rows(t) == 1..NRowsOf(t)

\* no table reaches handle_missing_values with a duplicated fill label
NoDuplicateFill == err # "DuplicateLabel"

TypeOK ==
    /\ pc \in 1..(NStages + 1)
    /\ alias \in BOOLEAN
    /\ err \in {"", "KeyError", "AttributeError", "TypeError"}
    /\ Len(ret) <= 1
    /\ \A i \in DOMAIN df : Len(df[i].cells) = NRowsOf(input)

----------------------------------------------------------------------------
\* C1: after stage 7 no designated categorical or numerical column holds a
\* null cell, whatever the table, also when a numerical column has no
\* non-null value at all.
C1_NoNullAfterFill ==
    JustAfter(7) =>
        \A name \in Range(categorical_cols) \cup Range(numerical_cols) :
            \A i \in Rows(df) : ~IsNull(CellsOf(df, name)[i])

----------------------------------------------------------------------------
\* C2: stage 6, started on a table whose customer_lifetime_value and
\* number_of_open_complaints columns hold text or null, completes, and then
\* every customer_lifetime_value cell is a number or null and every
\* number_of_open_complaints cell is a non-negative integer or null.
TextColumn(t, name) ==
    /\ Cardinality(Locs(t, name)) = 1
    /\ t[Loc(t, name)].dtype = "object"
    /\ \A i \in Rows(t) : IsStr(CellsOf(t, name)[i]) \/ IsNull(CellsOf(t, name)[i])

C2_NumericalNeverRaises ==
    (/\ Len(started) = 6
     /\ TextColumn(pre, N_customer_lifetime_value)
     /\ TextColumn(pre, N_number_of_open_complaints))
    => /\ JustAfter(6)
       /\ \A i \in Rows(df) :
            /\ LET c == CellsOf(df, N_customer_lifetime_value)[i] IN IsNum(c) \/ IsNull(c)
            /\ LET c == CellsOf(df, N_number_of_open_complaints)[i]
               IN  IsNull(c) \/ (IsInt(c) /\ c.v >= 0)

----------------------------------------------------------------------------
\* C3: in the returned table complaints_missing[i] is true exactly when
\* number_of_open_complaints[i] was null right after stage 6, and stage 7
\* leaves every number_of_open_complaints cell as it was.
C3_FlagIffNullAfterStage6 ==
    Returned =>
        /\ Cardinality(Locs(ret[1], N_complaints_missing)) = 1
        /\ ret[1][Loc(ret[1], N_complaints_missing)].dtype = "bool"
        /\ \A i \in Rows(pre) :
             /\ CellsOf(ret[1], N_complaints_missing)[i].b
                    = (CellsOf(pre, N_number_of_open_complaints)[i].t = "null")
             /\ CellsOf(ret[1], N_number_of_open_complaints)[i]
                    = CellsOf(pre, N_number_of_open_complaints)[i]

\* a returned table with a flagged and an unflagged row, the flagged one
\* still null
C3_Witness ==
    /\ Returned
    /\ \E i, j \in Rows(pre) :
         /\ CellsOf(ret[1], N_complaints_missing)[i] = BoolCell(TRUE)
         /\ IsNull(CellsOf(ret[1], N_number_of_open_complaints)[i])
         /\ CellsOf(ret[1], N_complaints_missing)[j] = BoolCell(FALSE)
         /\ IsInt(CellsOf(ret[1], N_number_of_open_complaints)[j])

----------------------------------------------------------------------------
\* C4: the stages start in the order 1, 2, ..., 7, each after the one before
\* has completed; when a label that stage k (2..7) reads is absent after stage
\* 1, stage k, once reached, raises, no later stage starts and no table is
\* returned.  (Stated per stage by its converse: a later stage has started, or
\* a table was returned, or stage k started without raising, only if no label
\* of stage k is absent.)
StageLabels(k) ==
    CASE k = 2 -> {N_gender}
      [] k = 3 -> {N_state}
      [] k = 4 -> {N_education}
      [] k = 5 -> {N_vehicle_class}
      [] k = 6 -> {N_customer_lifetime_value, N_number_of_open_complaints}
      [] k = 7 -> Range(categorical_cols) \cup Range(numerical_cols)
                    \cup {N_number_of_open_complaints}

\* the labels of the table after stage 1, from the headers handed in
LabelsAfterStage1 == {RenameLabel(LowerUnderscore(input[i].name)) : i \in DOMAIN input}

AbsentIn(labels, k) == \E name \in StageLabels(k) : name \notin labels

Absent(k) == AbsentIn(LabelsAfterStage1, k)

C4_MissingColumnHalts ==
    /\ \A i \in DOMAIN started : started[i] = i
    /\ Len(started) = (IF err = "" THEN pc - 1 ELSE pc)
    /\ LET labels == LabelsAfterStage1
       IN  \A k \in 2..NStages :
             (Len(started) > k \/ Returned \/ (Len(started) = k /\ ~FailedAt(k)))
                => ~AbsentIn(labels, k)

\* stage 5 raised KeyError on a table without vehicle_class, after stages
\* 1..4 completed
C4_Witness ==
    /\ FailedAt(5) /\ err = "KeyError"
    /\ Absent(5) /\ ~Absent(2) /\ ~Absent(3) /\ ~Absent(4)
    /\ started = <<1, 2, 3, 4, 5>>

----------------------------------------------------------------------------
\* C5: after stage 5 every text cell of vehicle_class that starts with L, l,
\* U or u, or holds the standalone word Sports, is exactly Luxury, and every
\* other cell is unchanged.
C5_VehicleClassLuxury ==
    JustAfter(5) =>
        \A i \in Rows(df) :
            LET o == CellsOf(pre, N_vehicle_class)[i]
                c == CellsOf(df, N_vehicle_class)[i]
            IN  IF IsStr(o) /\ (StartsWithOneOf(o.s, {"L", "l", "U", "u"})
                                \/ ContainsWord(o.s, Sports))
                THEN c = Str(Luxury)
                ELSE c = o

----------------------------------------------------------------------------
\* C6: after stage 3 a state cell is null if it was null, the mapped full
\* name if the uppercased original is a key of the mapping, and the
\* uppercased original otherwise; no cell is a key of the mapping in any
\* letter case.
C6_StateCanonical ==
    JustAfter(3) =>
        \A i \in Rows(df) :
            LET o == CellsOf(pre, N_state)[i]
                c == CellsOf(df, N_state)[i]
            IN  IF IsNull(o) THEN IsNull(c)
                ELSE /\ IsStr(c)
                     /\ \A p \in state_mapping : StrUpper(o.s) = p[1] => c.s = p[2]
                     /\ (\A p \in state_mapping : StrUpper(o.s) # p[1]) => c.s = StrUpper(o.s)
                     /\ \A p \in state_mapping : StrUpper(c.s) # p[1]

\* a lower-case key was mapped, and a text that is no key was uppercased
C6_Witness ==
    /\ JustAfter(3)
    /\ \E i \in Rows(df) :
         \/ /\ CellsOf(pre, N_state)[i] = Str(<<"c","a","l","i">>)
            /\ CellsOf(df, N_state)[i] = Str(<<"C","A","L","I","F","O","R","N","I","A">>)
         \/ /\ CellsOf(pre, N_state)[i] = Str(<<"A","l">>)
            /\ CellsOf(df, N_state)[i] = Str(<<"A","L","A","B","A","M","A">>)

----------------------------------------------------------------------------
\* C7: stage 7 replaces every null cell of each numerical column by the
\* median of the non-null values that column held after stage 6 and leaves
\* every non-null cell as it was; what is filled into one column does not
\* depend on the fill of another.
NonNullRows(cells) == {i \in DOMAIN cells : ~IsNull(cells[i])}

NumLeq(a, b) == ~NumLess(b, a)

\* the k-th smallest of the non-null values: fewer than k are below it and
\* at least k are not above it
KthSmallest(cells, k) ==
    CHOOSE v \in {cells[i] : i \in NonNullRows(cells)} :
        /\ Cardinality({i \in NonNullRows(cells) : NumLess(cells[i], v)}) < k
        /\ Cardinality({i \in NonNullRows(cells) : NumLeq(cells[i], v)}) >= k

IsMedianOf(m, cells) ==
    LET n == Cardinality(NonNullRows(cells))
    IN  IF n = 0 THEN IsNull(m)
        ELSE IF n % 2 = 1 THEN m = KthSmallest(cells, (n + 1) \div 2)
        ELSE /\ IsNum(m)
             /\ LET lo == KthSmallest(cells, n \div 2)
                    hi == KthSmallest(cells, n \div 2 + 1)
                IN  2 * m.n * lo.d * hi.d = m.d * (lo.n * hi.d + hi.n * lo.d)

C7_MedianFill ==
    JustAfter(7) =>
        \A name \in Range(numerical_cols) :
            \A i \in Rows(df) :
                LET o == CellsOf(pre, name)[i]
                    c == CellsOf(df, name)[i]
                IN  IF IsNull(o) THEN IsMedianOf(c, CellsOf(pre, name)) ELSE c = o

\* incomes 10000, 20000, 30000 and one null: the null became 20000; the
\* other columns of that table got the middle of their three values
C7_Witness ==
    /\ JustAfter(7)
    /\ CellsOf(pre, N_customer_income) = <<F(10000), F(20000), F(30000), Null>>
    /\ CellsOf(df, N_customer_income) = <<F(10000), F(20000), F(30000), F(20000)>>
    /\ CellsOf(pre, N_monthly_premium_auto) = <<F(94), F(108), Null, F(61)>>
    /\ CellsOf(df, N_monthly_premium_auto)[3] = F(94)
    /\ CellsOf(pre, N_total_claim_amount) = <<F(1131), F(566), F(529), Null>>
    /\ CellsOf(df, N_total_claim_amount)[4] = F(566)

----------------------------------------------------------------------------
\* C8 (as stated): every one of the seven stages is idempotent: applied to
\* its own output it succeeds and returns that output unchanged.
C8_EveryStageIdempotent ==
    \A k \in 1..NStages :
        JustAfter(k) => Stage(k, df).ok /\ Stage(k, df).df = df

\* C8 (amended): stages 1, 2, 3, 4, 5 and 7, applied to their own output,
\* succeed and return it unchanged, column names and cells; stage 6 applied
\* to its own output raises, because the two columns it reads are no longer
\* text, and leaves the table as it is.
C8_IdempotentButNumerical ==
    /\ \A k \in (1..NStages) \ {6} :
         JustAfter(k) => Stage(k, df).ok /\ Stage(k, df).df = df
    /\ JustAfter(6) =>
         /\ ~Stage(6, df).ok
         /\ Stage(6, df).err = "AttributeError"
         /\ Stage(6, df).df = df

\* stage 3 has just changed a state cell
C8_Witness ==
    /\ JustAfter(3)
    /\ CellsOf(pre, N_state) # CellsOf(df, N_state)
    /\ Stage(3, df).df = df

----------------------------------------------------------------------------
\* C9 (as stated): after stage 1 the column names of a table whose raw names
\* are pairwise distinct are pairwise distinct and hold no uppercase letter
\* and no space.
Distinct(names) == \A i, j \in DOMAIN names : i # j => names[i] # names[j]

NoUpperNoSpace(name) == \A i \in DOMAIN name : ~IsUpperCh(name[i]) /\ name[i] # " "

C9_NamesDistinctLowerNoSpace ==
    (JustAfter(1) /\ Distinct(Names(pre))) =>
        /\ Distinct(Names(df))
        /\ \A i \in DOMAIN df : NoUpperNoSpace(df[i].name)

\* two headers that differ at most in letter case and in space against
\* underscore
SameFolded(a, b) ==
    /\ Len(a) = Len(b)
    /\ \A i \in DOMAIN a :
         \/ a[i] = b[i]
         \/ a[i] \in {" ", "_"} /\ b[i] \in {" ", "_"}
         \/ \E n \in DOMAIN Uppers : {a[i], b[i]} = {Uppers[n], Lowers[n]}

HasFolded(names, name) == \E i \in DOMAIN names : SameFolded(names[i], name)

\* C9 (amended): after stage 1 no column name holds an uppercase letter or a
\* space; the names are pairwise distinct when no two raw names are equal up
\* to letter case and space against underscore and the table does not carry
\* both st and state, nor both income and customer_income, in any such
\* spelling.
C9_LowerNoSpaceDistinctUnlessFolded ==
    JustAfter(1) =>
        /\ \A i \in DOMAIN df : NoUpperNoSpace(df[i].name)
        /\ (/\ \A i, j \in DOMAIN pre : i # j => ~SameFolded(pre[i].name, pre[j].name)
            /\ ~(HasFolded(Names(pre), N_st) /\ HasFolded(Names(pre), N_state))
            /\ ~(HasFolded(Names(pre), N_income) /\ HasFolded(Names(pre), N_customer_income)))
           => Distinct(Names(df))

\* the raw headers of the customer file, renamed
C9_Witness ==
    /\ JustAfter(1)
    /\ Names(pre) = [i \in DOMAIN RawHeaders |-> RawHeaders[i].name]
    /\ Distinct(Names(df))
    /\ N_state \in Range(Names(df)) /\ N_customer_income \in Range(Names(df))
    /\ N_number_of_open_complaints \in Range(Names(df))

----------------------------------------------------------------------------
\* C10: the pipeline changes the caller's table object in stage 1 only, and
\* only its column names (lowercased, spaces to underscores, st and income
\* not renamed): whether the run returns or raises, every cell of the
\* caller's table is as handed in and it has no complaints_missing column.
C10_CallerKeepsCells ==
    /\ Len(caller) = Len(input)
    /\ \A i \in DOMAIN input :
         /\ caller[i].cells = input[i].cells
         /\ caller[i].dtype = input[i].dtype
         /\ caller[i].name =
              (IF started = << >> THEN input[i].name
               ELSE [j \in DOMAIN input[i].name |->
                        IF input[i].name[j] = " " THEN "_" ELSE LowerCh(input[i].name[j])])
    /\ \A i \in DOMAIN caller : caller[i].name # N_complaints_missing

\* a returned table with changed cells and the flag column, while the
\* caller's table still has its cells and the labels st and income
C10_Witness ==
    /\ Returned
    /\ N_st \in Range(Names(caller)) /\ N_income \in Range(Names(caller))
    /\ N_state \in Range(Names(ret[1])) /\ N_complaints_missing \in Range(Names(ret[1]))
    /\ \E i \in DOMAIN caller : caller[i].cells # ret[1][i].cells
    /\ \A i \in DOMAIN caller : caller[i].cells = input[i].cells

----------------------------------------------------------------------------
(* What the code does where C1, C2 and C5 fail *)

\* after stage 7 a designated column holds a null only if it is a numerical
\* column that had no non-null value when the stage started
NoNullUnlessAllNull ==
    JustAfter(7) =>
        /\ \A name \in Range(categorical_cols) :
             \A i \in Rows(df) : ~IsNull(CellsOf(df, name)[i])
        /\ \A name \in Range(numerical_cols) :
             (\E i \in Rows(df) : IsNull(CellsOf(df, name)[i]))
                => \A i \in Rows(pre) : IsNull(CellsOf(pre, name)[i])

\* stage 6 on two text columns raises only for a middle token above 2^63 - 1
RaisesOnlyOnOverflow ==
    (/\ Len(started) = 6
     /\ TextColumn(pre, N_customer_lifetime_value)
     /\ TextColumn(pre, N_number_of_open_complaints))
    => IF \E i \in Rows(pre) : LET c == ExtractCell(CellsOf(pre, N_number_of_open_complaints)[i])
                               IN  IsStr(c) /\ ExceedsInt64(c.s)
       THEN FailedAt(6) /\ err = "TypeError"
       ELSE /\ JustAfter(6)
            /\ \A i \in Rows(df) :
                 /\ LET c == CellsOf(df, N_customer_lifetime_value)[i] IN IsNum(c) \/ IsNull(c)
                 /\ LET c == CellsOf(df, N_number_of_open_complaints)[i]
                    IN  IsNull(c) \/ (IsInt(c) /\ c.v >= 0)

\* after stage 5 a text cell that starts with L or u, or holds the standalone
\* word Sports, is Luxury, and every other cell is unchanged
LuxuryAsCoded ==
    JustAfter(5) =>
        \A i \in Rows(df) :
            LET o == CellsOf(pre, N_vehicle_class)[i]
                c == CellsOf(df, N_vehicle_class)[i]
            IN  IF IsStr(o) /\ (StartsWithOneOf(o.s, {"L", "u"}) \/ ContainsWord(o.s, Sports))
                THEN c = Str(Luxury)
                ELSE c = o

=============================================================================
